---- MODULE Spec2Model ----
(***************************************************************************)
(* Model of application.py: the trade orchestrator do_trade_logic (login   *)
(* -> POST to the master -> limit order), the three Flask routes that wrap *)
(* it, and the start-up AUTO_TRADE run.  The brokerage client, the HTTP    *)
(* client and the master service are the environment: every outcome they   *)
(* can produce (return, raise, any status, any body) is chosen with \E.    *)
(* calls[c] is a history variable: the collaborator calls made by the call  *)
(* of do_trade_logic that caller c has in progress.                        *)
(***************************************************************************)
EXTENDS Integers, Sequences, FiniteSets, TLC

\* Number of request-handler threads the server runs at the same time.
MaxHandlers == 2

Handlers == 1..MaxHandlers
\* Caller 0 is the start-up AUTO_TRADE run of the main entry.
AutoCall == 0
Callers == {AutoCall} \cup Handlers

(***************************************************************************)
(* Configuration (config.ini, section default).                            *)
(***************************************************************************)
RH_USERNAME == "user@example.com"
RH_PASSWORD == "secret"
MASTER_TRADE_SIGNAL_URL == "http://master/trade-signal"
USER_TOKEN == "token-1"
SYMBOL == "ZSC"
\* MFA_CODE is "" (the fallback) or a code.
MfaCodes == {"", "123456"}

(***************************************************************************)
(* Python / JSON values, tagged so that values of different types compare. *)
(***************************************************************************)
None == [t |-> "null"]
JStr(s) == [t |-> "str", s |-> s]
JInt(n) == [t |-> "int", n |-> n]
Unset == [t |-> "unset"]

\* str(v), as the f-strings apply it.
PyStr(v) ==
    CASE v.t = "str" -> v.s
      [] v.t = "int" -> ToString(v.n)
      [] v.t = "null" -> "None"

\* Truthiness, as {% if v %} of the template tests it.
Truthy(v) ==
    CASE v.t = "str" -> v.s # ""
      [] v.t = "int" -> v.n # 0
      [] v.t = "null" -> FALSE

\* dict.get(key, default)
DictGetNoDefault(d, key, default) == IF key \in DOMAIN d THEN d[key] ELSE None
DictGet(d, key, default) == IF key \in DOMAIN d THEN d[key] ELSE default

(***************************************************************************)
(* What the environment can answer.                                        *)
(***************************************************************************)
LoginErrors == {"Invalid credentials"}
PostErrors == {"Connection refused"}
OrderErrors == {"Order rejected"}

\* JSON objects the master can send: any action (or none), quantity present
\* or absent, a symbol that differs from the configured SYMBOL.
ActionFields ==
    {<<>>} \cup {("action" :> a) : a \in {JStr("BUY"), JStr("SELL"), JStr("HOLD"), None}}
QuantityFields == {<<>>, ("quantity" :> JInt(3))}
SignalObjects ==
    {a @@ q @@ ("symbol" :> JStr("AAPL")) @@ ("limitPrice" :> JInt(50)) :
        a \in ActionFields, q \in QuantityFields}
    \cup {("action" :> JInt(0)) @@ ("symbol" :> JStr("AAPL")) @@ ("limitPrice" :> JInt(50))}

\* The body text of a JSON object, as the master writes it.
JsonLiteral(v) ==
    CASE v.t = "str" -> "\"" \o v.s \o "\""
      [] v.t = "int" -> ToString(v.n)
      [] v.t = "null" -> "null"
JsonMember(d, key) ==
    IF key \in DOMAIN d THEN "\"" \o key \o "\": " \o JsonLiteral(d[key]) \o ", " ELSE ""
JsonText(d) ==
    "{" \o JsonMember(d, "action") \o JsonMember(d, "symbol") \o JsonMember(d, "quantity")
        \o "\"limitPrice\": " \o JsonLiteral(d["limitPrice"]) \o "}"

\* resp.json(): the body is no JSON ("invalid"), JSON but no object
\* ("nonobject"), or a JSON object.
Response(status, text, json) ==
    [t |-> "resp", status_code |-> status, text |-> text, json |-> json]
\* A well-formed BUY signal sent with status 404.
NotFoundBody ==
    ("action" :> JStr("BUY")) @@ ("symbol" :> JStr("AAPL")) @@ ("limitPrice" :> JInt(50))
Responses ==
    {Response(500, "bad token", [k |-> "invalid"]),
     Response(404, JsonText(NotFoundBody), [k |-> "object", d |-> NotFoundBody]),
     Response(200, "<html>", [k |-> "invalid"]),
     Response(200, "[1]", [k |-> "nonobject"])}
    \cup {Response(200, JsonText(d), [k |-> "object", d |-> d]) : d \in SignalObjects}

VARIABLES
    MFA_CODE,     \* configuration value, loaded once
    phase,        \* main entry: "main", "auto", "serving", "crashed"
    console,      \* lines printed by the main entry
    route,        \* per handler: the route being handled, or "none"
    pc,           \* per caller: position in do_trade_logic / the handler
    resp,         \* do_trade_logic locals
    signal,
    action,
    limit_price,
    quantity,
    symbol,
    result,       \* the tuple do_trade_logic returned, <<>> before
    page,         \* the context handed to render_template_string
    calls         \* history: collaborator calls made on behalf of each caller

vars == <<MFA_CODE, phase, console, route, pc, resp, signal, action,
          limit_price, quantity, symbol, result, page, calls>>

locals == <<resp, signal, action, limit_price, quantity, symbol>>

Init ==
    /\ MFA_CODE \in MfaCodes
    /\ phase = "main"
    /\ console = <<>>
    /\ route = [h \in Handlers |-> "none"]
    /\ pc = [c \in Callers |-> "idle"]
    /\ resp = [c \in Callers |-> Unset]
    /\ signal = [c \in Callers |-> Unset]
    /\ action = [c \in Callers |-> Unset]
    /\ limit_price = [c \in Callers |-> Unset]
    /\ quantity = [c \in Callers |-> Unset]
    /\ symbol = [c \in Callers |-> Unset]
    /\ result = [c \in Callers |-> <<>>]
    /\ page = [h \in Handlers |-> Unset]
    /\ calls = [c \in Callers |-> <<>>]

(***************************************************************************)
(* do_trade_logic, one action per collaborator call or local step.         *)
(***************************************************************************)
\* do_trade_logic returns the tuple (success, msg).
Return(c, success, msg) ==
    /\ pc' = [pc EXCEPT ![c] = "returned"]
    /\ result' = [result EXCEPT ![c] = <<success, msg>>]

\* An exception leaves do_trade_logic: no tuple is returned.
Propagate(c) ==
    /\ pc' = [pc EXCEPT ![c] = "raised"]
    /\ UNCHANGED result

\* History: caller c made the collaborator call `call`, which returned
\* (outcome None) or raised (outcome JStr(str(e))).
Invoke(c, call, outcome) ==
    calls' = [calls EXCEPT ![c] = Append(@, [call |-> call, outcome |-> outcome])]

\* login_to_robinhood: robinhood.login with mfa_code only if MFA_CODE is set.
LoginCall ==
    IF MFA_CODE # ""
    THEN [op |-> "login", username |-> RH_USERNAME, password |-> RH_PASSWORD,
          mfa_code |-> MFA_CODE]
    ELSE [op |-> "login", username |-> RH_USERNAME, password |-> RH_PASSWORD]

LoginRaisedContinue(c, e) ==
    /\ pc' = [pc EXCEPT ![c] = "post"]
    /\ UNCHANGED result
\* except Exception as e: return False, f"Robinhood login failed: {str(e)}"
LoginRaised(c, e) == Return(c, FALSE, "Robinhood login failed: " \o e)

Login(c) ==
    /\ pc[c] = "login"
    /\ \/ /\ Invoke(c, LoginCall, None)
          /\ pc' = [pc EXCEPT ![c] = "post"]
          /\ UNCHANGED result
       \/ \E e \in LoginErrors :
            /\ Invoke(c, LoginCall, JStr(e))
            /\ LoginRaised(c, e)
    /\ UNCHANGED <<MFA_CODE, phase, console, route, locals, page>>

PostCall ==
    [op |-> "post", url |-> MASTER_TRADE_SIGNAL_URL,
     json |-> [token |-> USER_TOKEN, symbol |-> SYMBOL]]

PostRaisedRetry(c, e) ==
    /\ UNCHANGED <<pc, result>>
\* except Exception as e: return False, f"Error calling master: {str(e)}"
PostRaised(c, e) == Return(c, FALSE, "Error calling master: " \o e)

StatusIsServerError(status_code) == status_code >= 500
\* resp.status_code != 200
StatusNotOk(status_code) == status_code # 200

\* signal = resp.json() and the four signal.get(...): resp.json() raises on a
\* body that is no JSON, signal.get raises on a value that is no dict; neither
\* is inside a try block.
ParseSignal(c, r) ==
    IF r.json.k = "object"
    THEN LET d == r.json.d
         IN  /\ signal' = [signal EXCEPT ![c] = d]
             /\ action' = [action EXCEPT ![c] = DictGet(d, "action", None)]
             /\ limit_price' = [limit_price EXCEPT ![c] = DictGet(d, "limitPrice", None)]
             /\ quantity' = [quantity EXCEPT ![c] = DictGet(d, "quantity", JInt(1))]
             /\ symbol' = [symbol EXCEPT ![c] = DictGet(d, "symbol", None)]
             /\ pc' = [pc EXCEPT ![c] = "order"]
             /\ UNCHANGED result
    ELSE /\ Propagate(c)
         /\ UNCHANGED <<signal, action, limit_price, quantity, symbol>>

\* requests.post(...), the status test and the parsing of the body: the steps
\* from the second collaborator call up to the third.
Post(c) ==
    /\ pc[c] = "post"
    /\ \/ \E r \in Responses :
            /\ Invoke(c, PostCall, None)
            /\ resp' = [resp EXCEPT ![c] = r]
            /\ IF StatusNotOk(r.status_code)
               THEN /\ Return(c, FALSE, "Master returned error: " \o r.text)
                    /\ UNCHANGED <<signal, action, limit_price, quantity, symbol>>
               ELSE ParseSignal(c, r)
       \/ \E e \in PostErrors :
            /\ Invoke(c, PostCall, JStr(e))
            /\ PostRaised(c, e)
            /\ UNCHANGED locals
    /\ UNCHANGED <<MFA_CODE, phase, console, route, page>>

OrderCallConfiguredSymbol(c, op) ==
    [op |-> op, symbol |-> JStr(SYMBOL), quantity |-> quantity[c],
     limitPrice |-> limit_price[c]]
\* robinhood.order_*_limit(symbol=symbol, quantity=quantity, limitPrice=limit_price)
OrderCall(c, op) ==
    [op |-> op, symbol |-> symbol[c], quantity |-> quantity[c],
     limitPrice |-> limit_price[c]]

InvokeOrderDeduplicated(c, op, outcome) ==
    IF \E o \in Callers \ {c} : \E i \in 1..Len(calls[o]) :
            calls[o][i].call = OrderCall(c, op)
    THEN UNCHANGED calls
    ELSE Invoke(c, OrderCall(c, op), outcome)
InvokeOrder(c, op, outcome) == Invoke(c, OrderCall(c, op), outcome)

OrderRaisedIgnored(c, e) ==
    Return(c, TRUE, "Subscribed successfully to trading strategy")
\* except Exception as e: return False, f"Order placement failed: {str(e)}"
OrderRaised(c, e) == Return(c, FALSE, "Order placement failed: " \o e)

NoValidActionFallsThrough(c) ==
    Return(c, TRUE, "Subscribed successfully to trading strategy")
\* else: return False, f"No valid action in signal: {action}"
NoValidAction(c) ==
    Return(c, FALSE, "No valid action in signal: " \o PyStr(action[c]))

\* The operation the if / elif chain selects, "" for the else branch.
SelectedOrder(a) ==
    IF a = JStr("BUY") THEN "order_buy_limit"
    ELSE IF a = JStr("SELL") THEN "order_sell_limit"
    ELSE ""

PlaceOrder(c) ==
    /\ pc[c] = "order"
    /\ IF SelectedOrder(action[c]) # ""
       THEN \/ /\ InvokeOrder(c, SelectedOrder(action[c]), None)
               /\ Return(c, TRUE, "Subscribed successfully to trading strategy")
            \/ \E e \in OrderErrors :
                 /\ InvokeOrder(c, SelectedOrder(action[c]), JStr(e))
                 /\ OrderRaised(c, e)
       ELSE /\ NoValidAction(c)
            /\ UNCHANGED calls
    /\ UNCHANGED <<MFA_CODE, phase, console, route, locals, page>>

do_trade_logic(c) ==
    \/ Login(c)
    \/ Post(c)
    \/ PlaceOrder(c)

\* The frame of do_trade_logic is gone once its caller has the result, and the
\* history of the call with it.
DropFrame(c) ==
    /\ resp' = [resp EXCEPT ![c] = Unset]
    /\ signal' = [signal EXCEPT ![c] = Unset]
    /\ action' = [action EXCEPT ![c] = Unset]
    /\ limit_price' = [limit_price EXCEPT ![c] = Unset]
    /\ quantity' = [quantity EXCEPT ![c] = Unset]
    /\ symbol' = [symbol EXCEPT ![c] = Unset]
    /\ calls' = [calls EXCEPT ![c] = <<>>]

(***************************************************************************)
(* The template and the Flask routes.                                      *)
(***************************************************************************)
Context(message_success, message_error) ==
    [t |-> "page", email |-> RH_USERNAME, symbol |-> SYMBOL,
     message_success |-> message_success, message_error |-> message_error]

\* What the server answers when a view function raises.
InternalServerError == [t |-> "error500"]

\* The message lines HTML_TEMPLATE shows: {% if message_success %} ... and
\* {% if message_error %} ...
MessageLines(p) ==
    IF p.t # "page" THEN {}
    ELSE (IF Truthy(p.message_success)
          THEN {<<"message-success", PyStr(p.message_success)>>} ELSE {})
         \cup
         (IF Truthy(p.message_error)
          THEN {<<"message-error", PyStr(p.message_error)>>} ELSE {})

\* A handler thread is free and the server is listening.
Idle(h) == phase = "serving" /\ route[h] = "none"

\* GET /
home(h) ==
    /\ Idle(h)
    /\ route' = [route EXCEPT ![h] = "home"]
    /\ page' = [page EXCEPT ![h] = Context(None, None)]
    /\ pc' = [pc EXCEPT ![h] = "rendered"]
    /\ UNCHANGED <<MFA_CODE, phase, console, locals, result, calls>>

\* POST /trade enters do_trade_logic ...
trade(h) ==
    /\ Idle(h)
    /\ route' = [route EXCEPT ![h] = "trade"]
    /\ pc' = [pc EXCEPT ![h] = "login"]
    /\ UNCHANGED <<MFA_CODE, phase, console, locals, result, page, calls>>

\* ... and renders the tuple it returned.
trade_render(h) ==
    /\ route[h] = "trade"
    /\ pc[h] = "returned"
    /\ page' = [page EXCEPT ![h] =
                  IF result[h][1]
                  THEN Context(JStr(result[h][2]), None)
                  ELSE Context(None, JStr(result[h][2]))]
    /\ pc' = [pc EXCEPT ![h] = "rendered"]
    /\ DropFrame(h)
    /\ UNCHANGED <<MFA_CODE, phase, console, route, result>>

\* An exception that left do_trade_logic leaves trade() too.
trade_raised(h) ==
    /\ route[h] = "trade"
    /\ pc[h] = "raised"
    /\ page' = [page EXCEPT ![h] = InternalServerError]
    /\ pc' = [pc EXCEPT ![h] = "rendered"]
    /\ DropFrame(h)
    /\ UNCHANGED <<MFA_CODE, phase, console, route, result>>

stop_trade_logs_in(h) ==
    /\ Idle(h)
    /\ route' = [route EXCEPT ![h] = "stop"]
    /\ page' = [page EXCEPT ![h] = Context(None, JStr("Unsubscribed from trading strategy"))]
    /\ pc' = [pc EXCEPT ![h] = "rendered"]
    /\ Invoke(h, LoginCall, None)
    /\ UNCHANGED <<MFA_CODE, phase, console, locals, result>>
\* POST /stop-trade
stop_trade(h) ==
    /\ Idle(h)
    /\ route' = [route EXCEPT ![h] = "stop"]
    /\ page' = [page EXCEPT ![h] = Context(None, JStr("Unsubscribed from trading strategy"))]
    /\ pc' = [pc EXCEPT ![h] = "rendered"]
    /\ UNCHANGED <<MFA_CODE, phase, console, locals, result, calls>>

\* The response is sent; the handler thread serves the next request.
respond(h) ==
    /\ pc[h] = "rendered"
    /\ route' = [route EXCEPT ![h] = "none"]
    /\ pc' = [pc EXCEPT ![h] = "idle"]
    /\ page' = [page EXCEPT ![h] = Unset]
    /\ result' = [result EXCEPT ![h] = <<>>]
    /\ UNCHANGED <<MFA_CODE, phase, console, locals, calls>>

(***************************************************************************)
(* Main entry.                                                             *)
(***************************************************************************)
\* if AUTO_TRADE: print(...); do_trade_logic() ... else straight to app.run
main ==
    /\ phase = "main"
    /\ \E AUTO_TRADE \in BOOLEAN :
          IF AUTO_TRADE
          THEN /\ console' = <<"AUTO_TRADE is true. Invoking trade logic at startup...">>
               /\ pc' = [pc EXCEPT ![AutoCall] = "login"]
               /\ phase' = "auto"
          ELSE /\ phase' = "serving"
               /\ UNCHANGED <<console, pc>>
    /\ UNCHANGED <<MFA_CODE, route, locals, result, page, calls>>

\* print("AUTO_TRADE success:" | "AUTO_TRADE error:", msg), then app.run.
\* console keeps the label printed; success and msg are not read again.
auto_print ==
    /\ phase = "auto"
    /\ pc[AutoCall] = "returned"
    /\ console' = Append(console, IF result[AutoCall][1] THEN "AUTO_TRADE success:"
                                  ELSE "AUTO_TRADE error:")
    /\ phase' = "serving"
    /\ pc' = [pc EXCEPT ![AutoCall] = "idle"]
    /\ result' = [result EXCEPT ![AutoCall] = <<>>]
    /\ DropFrame(AutoCall)
    /\ UNCHANGED <<MFA_CODE, route, page>>

\* An exception that left do_trade_logic ends the process before app.run.
auto_raised ==
    /\ phase = "auto"
    /\ pc[AutoCall] = "raised"
    /\ phase' = "crashed"
    /\ UNCHANGED <<MFA_CODE, console, route, pc, locals, result, page, calls>>

Next ==
    \/ main
    \/ auto_print
    \/ auto_raised
    \/ \E c \in Callers : do_trade_logic(c)
    \/ \E h \in Handlers :
          \/ home(h)
          \/ trade(h)
          \/ trade_render(h)
          \/ trade_raised(h)
          \/ stop_trade(h)
          \/ respond(h)

Spec == Init /\ [][Next]_vars

(***************************************************************************)
(* Properties.                                                             *)
(***************************************************************************)
InCall(c) == pc[c] \in {"post", "order", "returned", "raised"}
Ops(c) == [i \in 1..Len(calls[c]) |-> calls[c][i].call.op]
Count(c, op) == Cardinality({i \in 1..Len(calls[c]) : calls[c][i].call.op = op})
OrderCount(c) == Count(c, "order_buy_limit") + Count(c, "order_sell_limit")
LoginFailed(c) == Len(calls[c]) >= 1 /\ calls[c][1].outcome # None
PostFailed(c) == Len(calls[c]) >= 2 /\ calls[c][2].outcome # None
\* Login returned, the POST returned status 200 and the body is a JSON object.
GotSignal(c) ==
    /\ InCall(c)
    /\ Len(calls[c]) >= 2
    /\ calls[c][1].outcome = None
    /\ calls[c][2].outcome = None
    /\ resp[c] # Unset
    /\ resp[c].status_code = 200
    /\ resp[c].json.k = "object"
Sent(c) == resp[c].json.d
SentAction(c) == IF "action" \in DOMAIN Sent(c) THEN Sent(c)["action"] ELSE None
Tradable(c) == GotSignal(c) /\ SentAction(c) \in {JStr("BUY"), JStr("SELL")}
Untradable(c) == GotSignal(c) /\ SentAction(c) \notin {JStr("BUY"), JStr("SELL")}
Subscribed == "Subscribed successfully to trading strategy"

\* C1: a call whose login raised has returned (False, "Robinhood login failed:
\* <detail>") and made no call but the login: no POST, no order.
C1_LoginFailureStops ==
    \A c \in Callers :
        LoginFailed(c) =>
            /\ pc[c] = "returned"
            /\ result[c] = <<FALSE, "Robinhood login failed: " \o calls[c][1].outcome.s>>
            /\ Ops(c) = <<"login">>
C1_Witness ==
    \E c \in Callers :
        /\ LoginFailed(c)
        /\ result[c] = <<FALSE, "Robinhood login failed: Invalid credentials">>

\* C2: with a signal whose action is not "BUY" or "SELL" (or is missing) no order
\* call is ever made, and the call returns (False, "No valid action in signal:
\* <action>") with the action value spelled out (None for a missing action).
ActionText(c) ==
    IF "action" \notin DOMAIN Sent(c) THEN "None"
    ELSE CASE Sent(c)["action"] = None -> "None"
           [] Sent(c)["action"] = JInt(0) -> "0"
           [] Sent(c)["action"] = JStr("HOLD") -> "HOLD"
C2_UnrecognizedAction ==
    \A c \in Callers :
        Untradable(c) =>
            /\ pc[c] \in {"order", "returned"}
            /\ OrderCount(c) = 0
            /\ pc[c] = "returned" =>
                  result[c] = <<FALSE, "No valid action in signal: " \o ActionText(c)>>
C2_Witness ==
    /\ \E c \in Callers :
          /\ Untradable(c)
          /\ "action" \notin DOMAIN Sent(c)
          /\ result[c] = <<FALSE, "No valid action in signal: None">>
    /\ \E c \in Callers :
          /\ Untradable(c)
          /\ result[c] = <<FALSE, "No valid action in signal: HOLD">>

\* C3: no call of do_trade_logic ends by propagating an exception: every call
\* that ends, ends with an outcome tuple.
C3_NothingReRaised ==
    \A c \in Callers : pc[c] # "raised"

\* C4: after a login that returned, a POST that raised gives (False, "Error
\* calling master: <detail>") and a status other than 200 gives (False, "Master
\* returned error: <body>"); in both cases the body is not parsed and no order
\* call is made.
C4_MasterFailure ==
    \A c \in Callers :
        /\ PostFailed(c) =>
              /\ pc[c] = "returned"
              /\ result[c] = <<FALSE, "Error calling master: " \o calls[c][2].outcome.s>>
              /\ Ops(c) = <<"login", "post">>
              /\ signal[c] = Unset
        /\ (InCall(c) /\ resp[c] # Unset /\ resp[c].status_code # 200) =>
              /\ pc[c] = "returned"
              /\ result[c] = <<FALSE, "Master returned error: " \o resp[c].text>>
              /\ resp[c].status_code = 500 =>
                    result[c] = <<FALSE, "Master returned error: bad token">>
              /\ Ops(c) = <<"login", "post">>
              /\ signal[c] = Unset
C4_Witness ==
    /\ \E c \in Callers :
          /\ PostFailed(c)
          /\ result[c] = <<FALSE, "Error calling master: Connection refused">>
    /\ \E c \in Callers :
          /\ InCall(c) /\ resp[c] # Unset /\ resp[c].status_code = 500
          /\ result[c] = <<FALSE, "Master returned error: bad token">>

\* C5: with action "BUY" exactly one order_buy_limit and no order_sell_limit is
\* called, with action "SELL" exactly one order_sell_limit and no
\* order_buy_limit, each with the symbol and limitPrice the signal carries.
Wanted(c) == IF SentAction(c) = JStr("BUY") THEN "order_buy_limit" ELSE "order_sell_limit"
C5_ActionSelectsOrder ==
    \A c \in Callers :
        Tradable(c) =>
            /\ pc[c] \in {"order", "returned"}
            /\ pc[c] = "order" => OrderCount(c) = 0
            /\ pc[c] = "returned" =>
                  /\ OrderCount(c) = 1
                  /\ Count(c, Wanted(c)) = 1
                  /\ calls[c][3].call.symbol = Sent(c)["symbol"]
                  /\ calls[c][3].call.limitPrice = Sent(c)["limitPrice"]
                  /\ calls[c][3].call.symbol # JStr(SYMBOL)
C5_Witness ==
    /\ \E c \in Callers :
          /\ Tradable(c) /\ pc[c] = "returned" /\ SentAction(c) = JStr("BUY")
          /\ Ops(c) = <<"login", "post", "order_buy_limit">>
    /\ \E c \in Callers :
          /\ Tradable(c) /\ pc[c] = "returned" /\ SentAction(c) = JStr("SELL")
          /\ Ops(c) = <<"login", "post", "order_sell_limit">>

\* C6: with a "BUY" or "SELL" signal, an order call that raised gives (False,
\* "Order placement failed: <detail>") and one that returned gives (True,
\* "Subscribed successfully to trading strategy"); and success is True only
\* after login returned, status 200, a "BUY" or "SELL" action and an order call
\* that returned.
C6_OrderOutcome ==
    \A c \in Callers :
        /\ (Tradable(c) /\ pc[c] = "returned") =>
              /\ Len(calls[c]) = 3
              /\ result[c] =
                    IF calls[c][3].outcome = None
                    THEN <<TRUE, Subscribed>>
                    ELSE <<FALSE, "Order placement failed: " \o calls[c][3].outcome.s>>
        /\ (pc[c] = "returned" /\ result[c][1]) =>
              /\ Tradable(c)
              /\ Ops(c) = <<"login", "post", Wanted(c)>>
              /\ calls[c][3].outcome = None
C6_Witness ==
    /\ \E c \in Callers :
          /\ Tradable(c) /\ pc[c] = "returned"
          /\ result[c] = <<FALSE, "Order placement failed: Order rejected">>
    /\ \E c \in Callers :
          /\ Tradable(c) /\ pc[c] = "returned"
          /\ result[c] = <<TRUE, Subscribed>>

\* C7: handling POST /stop-trade renders the fixed error-styled message and no
\* success message, whatever the other handlers and the start-up run did or are
\* doing, makes no collaborator call and changes nothing but the handler's own
\* response.
Unsubscribed == {<<"message-error", "Unsubscribed from trading strategy">>}
C7_StopTradeStep ==
    \A h \in Handlers :
        (route[h] # "stop" /\ route'[h] = "stop") =>
            /\ MessageLines(page'[h]) = Unsubscribed
            /\ UNCHANGED <<MFA_CODE, phase, console, locals, result, calls>>
            /\ \A g \in Handlers \ {h} : route'[g] = route[g] /\ page'[g] = page[g]
            /\ \A g \in Callers \ {h} : pc'[g] = pc[g]
C7_StopTradeIsInert == [][C7_StopTradeStep]_vars
C7_Witness ==
    \E h, g \in Handlers :
        /\ route[h] = "stop"
        /\ MessageLines(page[h]) = Unsubscribed
        /\ calls[h] = <<>>
        /\ route[g] = "trade"
        /\ pc[g] = "returned"
        /\ OrderCount(g) = 1
        /\ Len(console) = 2

\* C8: concurrent POST /trade requests are not coordinated or deduplicated:
\* every handler whose trade returned on a "BUY" or "SELL" signal has made its
\* own login, POST and order call and has its own outcome, also when another
\* handler has placed the same order; and a collaborator call of one caller
\* leaves every other caller's call untouched.
C8_OwnSequence ==
    \A h \in Handlers :
        (route[h] = "trade" /\ Tradable(h) /\ pc[h] = "returned") =>
            /\ Ops(h) = <<"login", "post", Wanted(h)>>
            /\ result[h] # <<>>
C8_OwnStep ==
    \A c \in Callers :
        (calls'[c] # calls[c]) =>
            \A o \in Callers \ {c} :
                /\ calls'[o] = calls[o]
                /\ pc'[o] = pc[o]
                /\ result'[o] = result[o]
                /\ resp'[o] = resp[o]
                /\ signal'[o] = signal[o]
C8_TradesNotCoordinated == []C8_OwnSequence /\ [][C8_OwnStep]_vars
\* Two handlers have each placed the same BUY order.
C8_Witness ==
    \E h, g \in Handlers :
        /\ h # g
        /\ route[h] = "trade" /\ route[g] = "trade"
        /\ pc[h] = "returned" /\ pc[g] = "returned"
        /\ Count(h, "order_buy_limit") = 1
        /\ Count(g, "order_buy_limit") = 1
        /\ calls[h][3].call = calls[g][3].call
        /\ result[h] = <<TRUE, Subscribed>>
        /\ result[g] = <<TRUE, Subscribed>>

\* C9: the order call carries quantity 1 when the signal has no quantity field
\* and the signal's quantity when it has one.
C9_QuantityDefault ==
    \A c \in Callers :
        (Tradable(c) /\ Len(calls[c]) = 3) =>
            calls[c][3].call.quantity =
                IF "quantity" \in DOMAIN Sent(c) THEN Sent(c)["quantity"] ELSE JInt(1)
C9_Witness ==
    /\ \E c \in Callers :
          /\ Tradable(c) /\ Len(calls[c]) = 3
          /\ "quantity" \notin DOMAIN Sent(c)
          /\ calls[c][3].call.quantity = JInt(1)
    /\ \E c \in Callers :
          /\ Tradable(c) /\ Len(calls[c]) = 3
          /\ "quantity" \in DOMAIN Sent(c)
          /\ calls[c][3].call.quantity = JInt(3)

\* C10: one call makes its collaborator calls along one line: login once and
\* first, the POST at most once and only after login returned, an order at
\* most once and only after a POST that returned status 200; and a call that
\* has returned its outcome makes no further collaborator call.
C10_Line ==
    \A c \in Callers :
        /\ Len(calls[c]) <= 3
        /\ InCall(c) => Count(c, "login") = 1 /\ calls[c][1].call.op = "login"
        /\ Count(c, "post") <= 1
        /\ Count(c, "post") = 1 =>
              /\ calls[c][2].call.op = "post"
              /\ calls[c][1].outcome = None
        /\ OrderCount(c) <= 1
        /\ OrderCount(c) = 1 =>
              /\ Len(calls[c]) = 3
              /\ calls[c][2].outcome = None
              /\ resp[c].status_code = 200
C10_AfterOutcome ==
    \A c \in Callers :
        pc[c] = "returned" => (calls'[c] = calls[c] \/ calls'[c] = <<>>)
C10_LinearPath == []C10_Line /\ [][C10_AfterOutcome]_vars
C10_Witness ==
    /\ \E c \in Callers : pc[c] = "returned" /\ Len(calls[c]) = 2
    /\ \E c \in Callers : pc[c] = "returned" /\ Len(calls[c]) = 3
====
